---- MODULE Spec2Model ----
(***************************************************************************)
(* A model of the metadata string-table editor: the MetadataFile codec     *)
(* (parse, get_strings, set_string, save) of src/app.py and the request    *)
(* handlers that use it (index, update, download).                         *)
(*                                                                         *)
(* A file is a sequence of bytes (0..255).  Offsets are 0-based as in the  *)
(* source; a TLA+ sequence is 1-based, so byte `off` of f is f[off + 1].   *)
(***************************************************************************)
EXTENDS Integers, Sequences, FiniteSets, TLC

(***************************************************************************)
(* Bounds of the model.                                                    *)
(***************************************************************************)
MaxEdits == 2       \* set_string calls on one MetadataFile object
MaxCount == 2       \* descriptors in a generated input file
MaxRequests == 3    \* requests served by the handlers in one behaviour
MaxPage == 3        \* the largest page number and page size a request carries

(***************************************************************************)
(* Python's sequence primitives, as bytes/bytearray/memoryview apply them. *)
(***************************************************************************)
Min(a, b) == IF a < b THEN a ELSE b
Max(a, b) == IF a < b THEN b ELSE a

\* s[a:b] for 0 <= a, b: both bounds are clamped to len(s); never raises.
PySlice(s, a, b) ==
    LET lo == Min(a, Len(s))
        hi == Max(lo, Min(b, Len(s)))
    IN  SubSeq(s, lo + 1, hi)

\* s[a:b] = data on a bytearray: the clamped slice is REPLACED by data, so
\* the bytearray grows when the slice is shorter than data, and data lands
\* at len(s) (not at a) when a > len(s).
PySliceAssign(s, a, b, data) ==
    LET lo == Min(a, Len(s))
        hi == Max(lo, Min(b, Len(s)))
    IN  SubSeq(s, 1, lo) \o data \o SubSeq(s, hi + 1, Len(s))

\* s[a:b] for any integers a, b: a negative bound counts from the end
\* (and stops at 0), a bound past the end stops at len(s).
PyBound(i, n) == IF i < 0 THEN Max(i + n, 0) ELSE Min(i, n)

PySliceAny(s, a, b) == SubSeq(s, PyBound(a, Len(s)) + 1, PyBound(b, Len(s)))

Zeros(n) == [k \in 1..n |-> 0]

\* bytes.rstrip(b"\x00")
RECURSIVE rstrip_nul(_)
rstrip_nul(s) ==
    IF s # <<>> /\ s[Len(s)] = 0 THEN rstrip_nul(SubSeq(s, 1, Len(s) - 1)) ELSE s

(***************************************************************************)
(* struct: "<I" is an unsigned 32-bit little-endian integer.               *)
(*                                                                         *)
(* TLC's integers are 32-bit signed, Python's are unbounded.  A value read *)
(* from a file is used by the code as a slice bound, a table position or a *)
(* count only, and every buffer of the model is far shorter than 2^24      *)
(* bytes: a field whose top byte is not zero is read as Far, which is      *)
(* beyond every buffer exactly as the real value is.  The fields the code  *)
(* writes back are below 2^24 in every file of the model.                  *)
(***************************************************************************)
Far == 256 * 65536

unpack_I(f, off) ==
    IF f[off + 4] # 0 THEN Far
    ELSE f[off + 1] + 256 * f[off + 2] + 65536 * f[off + 3]

\* "<i": signed 32-bit little-endian.
unpack_i(f, off) ==
    f[off + 1] + 256 * f[off + 2] + 65536 * f[off + 3]
      + 16777216 * (IF f[off + 4] >= 128 THEN f[off + 4] - 256 ELSE f[off + 4])

pack_I(v) ==
    << v % 256, (v \div 256) % 256, (v \div 65536) % 256, (v \div 16777216) % 256 >>

\* struct.pack_into("<II", buf, pos, a, b): overwrites 8 bytes in place.
\* Every call site writes where parse read, so pos + 8 <= len(buf).
pack_into_II(buf, pos, a, b) ==
    LET w == pack_I(a) \o pack_I(b)
    IN  [k \in 1..Len(buf) |-> IF k > pos /\ k <= pos + 8 THEN w[k - pos] ELSE buf[k]]

(***************************************************************************)
(* The MetadataFile class.                                                 *)
(***************************************************************************)
\* MAGIC = 0xFAB11BAF, as the four bytes "<I" reads it from.
MAGIC == << 175, 27, 177, 250 >>

Raise(e) == [ok |-> FALSE, error |-> e]

\* MetadataFile.__init__ + parse on the bytes of the file: the object, or the
\* exception that leaves no object.
parse(file_data) ==
    LET f == file_data
    IN  IF Len(f) < 4 THEN Raise("struct.error")
        ELSE IF SubSeq(f, 1, 4) # MAGIC THEN Raise("Invalid metadata file")
        ELSE IF Len(f) < 24 THEN Raise("struct.error")
        ELSE
          LET string_literal_offset == unpack_I(f, 8)
              string_literal_table_size == unpack_I(f, 12)
              string_literal_count == string_literal_table_size \div 8
              string_literal_data_offset == unpack_I(f, 16)
              lit(i) == [length |-> unpack_I(f, string_literal_offset + (i - 1) * 8),
                         offset |-> unpack_I(f, string_literal_offset + (i - 1) * 8 + 4)]
          IN  IF string_literal_count > 0
                 /\ string_literal_offset + 8 * string_literal_count > Len(f)
              THEN Raise("struct.error")
              ELSE [ok |-> TRUE,
                    error |-> "",
                    file_data |-> f,
                    version |-> unpack_i(f, 4),
                    string_literal_offset |-> string_literal_offset,
                    string_literal_count |-> string_literal_count,
                    data_info_position |-> 16,
                    string_literal_data_offset |-> string_literal_data_offset,
                    string_literal_data_count |-> unpack_I(f, 20),
                    string_literals |-> [i \in 1..string_literal_count |-> lit(i)],
                    str_bytes |-> [i \in 1..string_literal_count |->
                        PySlice(f, string_literal_data_offset + lit(i).offset,
                                   string_literal_data_offset + lit(i).offset
                                       + lit(i).length)]]

(***************************************************************************)
(* UTF-8.  A text is a sequence of code points.                            *)
(***************************************************************************)
\* str.encode("utf-8") of one code point (no surrogates reach the codec:
\* form values are decoded text).
encode_cp(c) ==
    IF c < 128 THEN << c >>
    ELSE IF c < 2048 THEN << 192 + (c \div 64), 128 + (c % 64) >>
    ELSE IF c < 65536
         THEN << 224 + (c \div 4096), 128 + ((c \div 64) % 64), 128 + (c % 64) >>
    ELSE << 240 + (c \div 262144), 128 + ((c \div 4096) % 64),
            128 + ((c \div 64) % 64), 128 + (c % 64) >>

RECURSIVE encode_utf8(_)
encode_utf8(text) ==
    IF text = <<>> THEN <<>> ELSE encode_cp(Head(text)) \o encode_utf8(Tail(text))

\* The length of the sequence a lead byte announces; 0 for an invalid start byte.
utf8_need(b) ==
    IF b < 128 THEN 1
    ELSE IF b >= 194 /\ b <= 223 THEN 2
    ELSE IF b >= 224 /\ b <= 239 THEN 3
    ELSE IF b >= 240 /\ b <= 244 THEN 4
    ELSE 0

IsCont(b) == b >= 128 /\ b <= 191

\* Whether b may be the k-th byte (k >= 2) of a sequence led by `lead`.
utf8_follow(lead, k, b) ==
    /\ IsCont(b)
    /\ k = 2 =>
         /\ (lead = 224 => b >= 160)
         /\ (lead = 237 => b < 160)
         /\ (lead = 240 => b >= 144)
         /\ (lead = 244 => b < 144)

\* The number of bytes from position i (1-based) that form a valid prefix
\* of the sequence announced by s[i], the lead byte included.
RECURSIVE utf8_valid_prefix(_, _, _)
utf8_valid_prefix(s, i, k) ==
    IF k < utf8_need(s[i]) /\ i + k <= Len(s) /\ utf8_follow(s[i], k + 1, s[i + k])
    THEN utf8_valid_prefix(s, i, k + 1)
    ELSE k

utf8_cp(s, i, n) ==
    IF n = 1 THEN s[i]
    ELSE IF n = 2 THEN (s[i] - 192) * 64 + (s[i + 1] - 128)
    ELSE IF n = 3 THEN (s[i] - 224) * 4096 + (s[i + 1] - 128) * 64 + (s[i + 2] - 128)
    ELSE (s[i] - 240) * 262144 + (s[i + 1] - 128) * 4096
           + (s[i + 2] - 128) * 64 + (s[i + 3] - 128)

\* bytes.decode("utf-8", errors="ignore"): an invalid start byte is dropped;
\* an ill-formed or cut-off sequence is dropped up to its first bad byte.
RECURSIVE decode_from(_, _)
decode_from(s, i) ==
    IF i > Len(s) THEN <<>>
    ELSE LET need == utf8_need(s[i])
             k == IF need = 0 THEN 1 ELSE utf8_valid_prefix(s, i, 1)
         IN  IF need # 0 /\ k = need
             THEN << utf8_cp(s, i, need) >> \o decode_from(s, i + need)
             ELSE decode_from(s, i + k)

decode_utf8_ignore(s) == decode_from(s, 1)

\* Text with its trailing NUL characters removed.
RECURSIVE strip_nul_chars(_)
strip_nul_chars(text) ==
    IF text # <<>> /\ text[Len(text)] = 0
    THEN strip_nul_chars(SubSeq(text, 1, Len(text) - 1)) ELSE text

\* get_string with the two steps in the other order: decode the whole
\* payload, then strip the NUL characters.
get_string_decode_first(s) == strip_nul_chars(decode_utf8_ignore(s))

\* One element of get_strings(): s.rstrip(b"\x00").decode("utf-8", errors="ignore")
get_string(s) == decode_utf8_ignore(rstrip_nul(s))

get_strings(obj) == [i \in 1..Len(obj.str_bytes) |-> get_string(obj.str_bytes[i])]

\* set_string with an index past the end clamped to the last string.
set_string_clamped(obj, index, new_value) ==
    LET n == Len(obj.str_bytes)
        at == IF index < 0 THEN index + n ELSE Min(index, n - 1)
    IN  IF at < 0 \/ at >= n
        THEN [ok |-> FALSE, error |-> "list assignment index out of range", obj |-> obj]
        ELSE [ok |-> TRUE, error |-> "",
              obj |-> [obj EXCEPT !.str_bytes[at + 1] = encode_utf8(new_value) \o << 0 >>]]

\* set_string that adds the terminator only to a text that lacks one.
set_string_terminate_once(obj, index, new_value) ==
    LET n == Len(obj.str_bytes)
        at == IF index < 0 THEN index + n ELSE index
        data == encode_utf8(new_value)
    IN  IF at < 0 \/ at >= n
        THEN [ok |-> FALSE, error |-> "list assignment index out of range", obj |-> obj]
        ELSE [ok |-> TRUE, error |-> "",
              obj |-> [obj EXCEPT !.str_bytes[at + 1] =
                          IF data # <<>> /\ data[Len(data)] = 0 THEN data
                          ELSE data \o << 0 >>]]

\* self.str_bytes[index] = new_value.encode("utf-8") + b"\x00" on a Python
\* list of n elements: index -n..-1 counts from the end, any other index
\* outside 0..n-1 raises IndexError before anything is assigned.
set_string(obj, index, new_value) ==
    LET n == Len(obj.str_bytes)
        at == IF index < 0 THEN index + n ELSE index
    IN  IF at < 0 \/ at >= n
        THEN [ok |-> FALSE, error |-> "list assignment index out of range", obj |-> obj]
        ELSE [ok |-> TRUE, error |-> "",
              obj |-> [obj EXCEPT !.str_bytes[at + 1] = encode_utf8(new_value) \o << 0 >>]]

\* The sum of the lengths of the first n payloads.
RECURSIVE LenSum(_, _)
LenSum(str_bytes, n) ==
    IF n = 0 THEN 0 ELSE LenSum(str_bytes, n - 1) + Len(str_bytes[n])

\* save, lines 54-59: descriptor i becomes (len(str_bytes[i]), running offset)
\* in the object and in the table.  enumerate(string_literals) pairs the
\* descriptors with the payloads; both lists have string_literal_count items.
save_literals(obj) ==
    [i \in 1..Len(obj.string_literals) |->
        [length |-> Len(obj.str_bytes[i]), offset |-> LenSum(obj.str_bytes, i - 1)]]

RECURSIVE write_table(_, _, _, _)
write_table(buf, pos, lits, i) ==
    IF i > Len(lits) THEN buf
    ELSE write_table(pack_into_II(buf, pos, lits[i].length, lits[i].offset),
                     pos + 8, lits, i + 1)

\* The padding without its outer "% 4": 4 bytes for an aligned end.
padding_needed_unreduced(end_pos) == 4 - (end_pos % 4)

padding_needed(end_pos) == (4 - (end_pos % 4)) % 4

\* save, lines 61-67: the zero padding after the packed strings, written
\* before the strings are; the buffer is extended first when it is short.
write_padding(buf, end_pos) ==
    LET padding == padding_needed(end_pos)
        grown == IF end_pos + padding > Len(buf)
                 THEN buf \o Zeros(end_pos + padding - Len(buf)) ELSE buf
    IN  IF padding # 0
        THEN PySliceAssign(grown, end_pos, end_pos + padding, Zeros(padding))
        ELSE buf

\* save, lines 69-72: each payload slice-assigned at the running position.
RECURSIVE write_strings(_, _, _, _)
write_strings(buf, new_pos, str_bytes, i) ==
    IF i > Len(str_bytes) THEN buf
    ELSE write_strings(
             PySliceAssign(buf, new_pos, new_pos + Len(str_bytes[i]), str_bytes[i]),
             new_pos + Len(str_bytes[i]), str_bytes, i + 1)

\* MetadataFile.save: the object after the call; the bytes returned are its
\* file_data.
save(obj) ==
    LET lits == save_literals(obj)
        packed == LenSum(obj.str_bytes, Len(obj.string_literals))
        end_pos == obj.string_literal_data_offset + packed
        offset_count == packed + padding_needed(end_pos)
        b1 == write_table(obj.file_data, obj.string_literal_offset, lits, 1)
        b2 == write_padding(b1, end_pos)
        b3 == write_strings(b2, obj.string_literal_data_offset, obj.str_bytes, 1)
        b4 == pack_into_II(b3, obj.data_info_position,
                           obj.string_literal_data_offset, offset_count)
    IN  [obj EXCEPT !.string_literals = lits, !.file_data = b4]

(***************************************************************************)
(* The files the model feeds the program: arbitrary bytes reach it through *)
(* the upload form, so the set holds well-formed files of both region      *)
(* orders, files whose descriptors share or overrun the string data, files *)
(* whose string-data offset points into the header, into the data or past  *)
(* the end, and files parse rejects.                                       *)
(***************************************************************************)
Header(dto, tsize, sdo, total) ==
    MAGIC \o pack_I(29) \o pack_I(dto) \o pack_I(tsize) \o pack_I(sdo) \o pack_I(total)

RECURSIVE Table(_)
Table(descs) ==
    IF descs = <<>> THEN <<>>
    ELSE pack_I(Head(descs).length) \o pack_I(Head(descs).offset) \o Table(Tail(descs))

TableKinds == {"packed", "aliased", "overrun", "empty"}

Descs(kind, c) ==
    [i \in 1..c |->
        IF kind = "packed" THEN [length |-> 2, offset |-> 2 * (i - 1)]
        ELSE IF kind = "aliased" THEN [length |-> 4, offset |-> 0]
        ELSE IF kind = "overrun" THEN [length |-> 6, offset |-> 2 * (i - 1)]
        ELSE [length |-> 0, offset |-> 0]]

Tables == { Descs(kind, c) : kind \in TableKinds, c \in 0..MaxCount }

\* "a\0b\0", "\xC3\xA9\0\xFF" (e-acute, NUL, an invalid byte), no data.
StringData == { << 97, 0, 98, 0 >>, << 195, 169, 0, 255 >>, << >> }

Trailer == << 122, 122, 122, 122 >>

\* header, descriptor table, string data, other data.
TableFirst(descs, data, trailer, shift) ==
    Header(24, 8 * Len(descs), 24 + 8 * Len(descs) + shift, Len(data))
        \o Table(descs) \o data \o trailer

\* header, string data, descriptor table.
DataFirst(descs, data, shift) ==
    Header(24 + Len(data), 8 * Len(descs), 24 + shift, Len(data))
        \o data \o Table(descs)

GoodFiles ==
    { TableFirst(d, data, t, sh) :
          d \in Tables, data \in StringData, t \in {<<>>, Trailer}, sh \in {0, 1, 4} }
    \cup { DataFirst(d, data, sh) : d \in Tables, data \in StringData, sh \in {-8, 0, 1} }

\* Nothing, a cut magic, a wrong magic, a cut header, a table past the end.
BadFiles ==
    { << >>,
      SubSeq(MAGIC, 1, 3),
      << 0, 0, 0, 0 >> \o SubSeq(Header(24, 0, 24, 0), 5, 24),
      SubSeq(Header(24, 0, 24, 0), 1, 23),
      Header(24, 16, 40, 0) \o Table(Descs("packed", 1)) }

Files == GoodFiles \cup BadFiles

\* The texts a caller passes: e-acute, "a\0" (ends in NUL), "abcde".
Texts == { << 233 >>, << 97, 0 >>, << 97, 98, 99, 100, 101 >> }

\* The indices the codec's caller passes to an object of n strings: the
\* zero-based ones and the first one past the end.
Indices(n) == 0 .. n

(***************************************************************************)
(* State.                                                                  *)
(***************************************************************************)
NoObj == [ok |-> FALSE, error |-> "none"]
NoCall == [made |-> FALSE]
NoStrings == [made |-> FALSE]

\* The names uploads arrive under, and an entry of the folder with no file.
FileNames == {"m1", "m2"}
Absent == [exists |-> FALSE, data |-> << >>]
NoReq == [kind |-> "none"]
NoResp == [status |-> 0]

\* The requests the server's threads serve at once: two updates and a read.
Updaters == {"u1", "u2"}
Reader == "r"
NoThreads == [t \in Updaters \cup {Reader} |-> [pc |-> "off"]]

VARIABLES
    pc,      \* where the codec's caller is: start, loaded, failed, saved, reloaded, resaved
    input,   \* the bytes given to the constructor
    obj,     \* the MetadataFile object, or the exception of its constructor
    edits,   \* set_string calls made on obj
    call,    \* the last set_string call: its arguments, outcome, and obj before it
    before,  \* obj as it was when save was called
    out,     \* the bytes save returned
    obj2,    \* the MetadataFile constructed from out
    out2,    \* the bytes save returned for obj2
    strings, \* what the last get_strings call on obj returned
    store,   \* the upload folder: file name -> whether it exists, and its bytes
    req,     \* the last request served
    resp,    \* its response
    prior,   \* the upload folder as that request found it
    meta,    \* the handler's meta_obj as the request left it
    nreq,    \* requests served
    threads  \* the requests in progress at once: each one's step and locals

codecvars == << pc, input, obj, edits, call, before, out, obj2, out2, strings >>
webvars == << store, req, resp, prior, meta, nreq >>
concvars == << threads >>
vars == << codecvars, webvars, concvars >>

WebIdle ==
    /\ store = [n \in FileNames |-> Absent]
    /\ req = NoReq
    /\ resp = NoResp
    /\ prior = [n \in FileNames |-> Absent]
    /\ meta = NoObj
    /\ nreq = 0

Init ==
    /\ WebIdle
    /\ threads = NoThreads
    /\ pc = "start"
    /\ input \in Files
    /\ obj = NoObj
    /\ edits = 0
    /\ call = NoCall
    /\ before = NoObj
    /\ out = << >>
    /\ obj2 = NoObj
    /\ out2 = << >>
    /\ strings = NoStrings

\* MetadataFile(filepath): the constructor reads the file and parses it.
Load ==
    /\ pc = "start"
    /\ obj' = parse(input)
    /\ pc' = IF obj'.ok THEN "loaded" ELSE "failed"
    /\ UNCHANGED << input, edits, call, before, out, obj2, out2, strings >>
    /\ UNCHANGED webvars
    /\ UNCHANGED concvars

\* meta_obj.set_string(index, new_value)
SetString ==
    /\ pc = "loaded"
    /\ edits < MaxEdits
    /\ \E index \in Indices(Len(obj.str_bytes)), new_value \in Texts :
         LET r == set_string(obj, index, new_value)
         IN  /\ obj' = r.obj
             /\ call' = [made |-> TRUE, index |-> index, new_value |-> new_value,
                         ok |-> r.ok, error |-> r.error, obj |-> obj]
    /\ edits' = edits + 1
    /\ strings' = NoStrings
    /\ UNCHANGED << pc, input, before, out, obj2, out2 >>
    /\ UNCHANGED webvars
    /\ UNCHANGED concvars

\* meta_obj.get_strings()
GetStrings ==
    /\ pc = "loaded"
    /\ ~strings.made
    /\ strings' = [made |-> TRUE, value |-> get_strings(obj)]
    /\ UNCHANGED << pc, input, obj, edits, call, before, out, obj2, out2 >>
    /\ UNCHANGED webvars
    /\ UNCHANGED concvars

\* meta_obj.save()
Save ==
    /\ pc = "loaded"
    /\ before' = obj
    /\ obj' = save(obj)
    /\ out' = obj'.file_data
    /\ call' = NoCall
    /\ strings' = NoStrings
    /\ pc' = "saved"
    /\ UNCHANGED << input, edits, obj2, out2 >>
    /\ UNCHANGED webvars
    /\ UNCHANGED concvars

\* MetadataFile on the bytes save returned (the next request's constructor).
LoadOutput ==
    /\ pc = "saved"
    /\ obj2' = parse(out)
    /\ pc' = "reloaded"
    /\ UNCHANGED << input, obj, edits, call, before, out, out2, strings >>
    /\ UNCHANGED webvars
    /\ UNCHANGED concvars

\* save on the reloaded object.
SaveAgain ==
    /\ pc = "reloaded"
    /\ obj2.ok
    /\ out2' = save(obj2).file_data
    /\ pc' = "resaved"
    /\ UNCHANGED << input, obj, edits, call, before, out, obj2, strings >>
    /\ UNCHANGED webvars
    /\ UNCHANGED concvars

Next == Load \/ SetString \/ GetStrings \/ Save \/ LoadOutput \/ SaveAgain

Spec == Init /\ [][Next]_vars

(***************************************************************************)
(* The request handlers.  One action is one request, served to its end;    *)
(* MetadataFile(filepath) reads the file as the folder holds it then.      *)
(***************************************************************************)
\* The files the upload form is given: three that parse and two that do not.
UploadFiles ==
    { TableFirst(Descs("packed", 2), << 97, 0, 98, 0 >>, << >>, 0),
      DataFirst(Descs("packed", 2), << 97, 0, 98, 0 >>, 0),
      TableFirst(Descs("aliased", 1), << 195, 169, 0, 255 >>, Trailer, 0),
      << 0, 0, 0, 0 >> \o SubSeq(Header(24, 0, 24, 0), 5, 24),
      SubSeq(Header(24, 0, 24, 0), 1, 23) }

\* The integers int(request.form["index"]) yields.
WebIndices == -1 .. MaxCount

CodecIdle ==
    /\ pc = "off"
    /\ input = << >>
    /\ obj = NoObj
    /\ edits = 0
    /\ call = NoCall
    /\ before = NoObj
    /\ out = << >>
    /\ obj2 = NoObj
    /\ out2 = << >>
    /\ strings = NoStrings

WebInit == CodecIdle /\ WebIdle /\ threads = NoThreads

\* index(), POST with a file: file.save(filepath) stores the upload, then
\* MetadataFile(filepath) parses it; a parse error is shown on the upload
\* page, a file that parses redirects to the editor.
Upload ==
    /\ nreq < MaxRequests
    /\ \E filename \in FileNames, content \in UploadFiles :
         LET m == parse(content)
         IN  /\ store' = [store EXCEPT ![filename] = [exists |-> TRUE, data |-> content]]
             /\ req' = [kind |-> "upload", filename |-> filename, content |-> content]
             /\ resp' = IF m.ok
                        THEN [status |-> 302, page |-> "edit", error |-> ""]
                        ELSE [status |-> 200, page |-> "upload", error |-> m.error]
             /\ meta' = m
    /\ prior' = store
    /\ nreq' = nreq + 1
    /\ UNCHANGED codecvars
    /\ UNCHANGED concvars

\* update(): 404 when the file is missing; else construct, set_string, save
\* and write the bytes back; any exception becomes a 500 with its text and
\* the file is not opened for writing.
Update ==
    /\ nreq < MaxRequests
    /\ \E filename \in FileNames, index \in WebIndices, new_value \in Texts :
         LET m == parse(store[filename].data)
             r == set_string(m, index, new_value)
         IN  /\ req' = [kind |-> "update", filename |-> filename,
                        index |-> index, new_value |-> new_value]
             /\ IF ~store[filename].exists
                THEN /\ resp' = [status |-> 404, success |-> FALSE, error |-> "File not found"]
                     /\ meta' = NoObj
                     /\ store' = store
                ELSE IF ~m.ok
                THEN /\ resp' = [status |-> 500, success |-> FALSE, error |-> m.error]
                     /\ meta' = m
                     /\ store' = store
                ELSE IF ~r.ok
                THEN /\ resp' = [status |-> 500, success |-> FALSE, error |-> r.error]
                     /\ meta' = r.obj
                     /\ store' = store
                ELSE /\ resp' = [status |-> 200, success |-> TRUE, error |-> ""]
                     /\ meta' = save(r.obj)
                     /\ store' = [store EXCEPT
                                    ![filename] = [exists |-> TRUE,
                                                   data |-> save(r.obj).file_data]]
    /\ prior' = store
    /\ nreq' = nreq + 1
    /\ UNCHANGED codecvars
    /\ UNCHANGED concvars

\* The integers int(request.args.get("page")) and int(...get("limit")) yield.
Pages == -1 .. MaxPage
Limits == -1 .. MaxPage

\* get_strings_page(): 404 when the file is missing; else construct, decode
\* every string and answer with the slice [start:end], start and
\* end < len(all_strings).  A constructor error is not caught (a 500).
GetStringsPage ==
    /\ nreq < MaxRequests
    /\ \E filename \in FileNames, page \in Pages, limit \in Limits :
         LET m == parse(store[filename].data)
             all_strings == get_strings(m)
             start == (page - 1) * limit
             end == Min(start + limit, Len(all_strings))
         IN  /\ req' = [kind |-> "page", filename |-> filename,
                        page |-> page, limit |-> limit]
             /\ IF ~store[filename].exists
                THEN /\ resp' = [status |-> 404, error |-> "File not found"]
                     /\ meta' = NoObj
                ELSE IF ~m.ok
                THEN /\ resp' = [status |-> 500, error |-> m.error]
                     /\ meta' = m
                ELSE /\ resp' = [status |-> 200,
                                 strings |-> PySliceAny(all_strings, start, end),
                                 start_index |-> start,
                                 has_more |-> end < Len(all_strings)]
                     /\ meta' = m
    /\ store' = store
    /\ prior' = store
    /\ nreq' = nreq + 1
    /\ UNCHANGED codecvars
    /\ UNCHANGED concvars

\* download(): a redirect when the file is missing; else the bytes save
\* returns for the file as stored (a constructor error is a 500).  The
\* folder is not written.
Download ==
    /\ nreq < MaxRequests
    /\ \E filename \in FileNames :
         LET m == parse(store[filename].data)
         IN  /\ req' = [kind |-> "download", filename |-> filename]
             /\ IF ~store[filename].exists
                THEN /\ resp' = [status |-> 302, page |-> "index"]
                     /\ meta' = NoObj
                ELSE IF ~m.ok
                THEN /\ resp' = [status |-> 500, error |-> m.error]
                     /\ meta' = m
                ELSE /\ resp' = [status |-> 200, body |-> save(m).file_data]
                     /\ meta' = save(m)
    /\ store' = store
    /\ prior' = store
    /\ nreq' = nreq + 1
    /\ UNCHANGED codecvars
    /\ UNCHANGED concvars

WebNext == Upload \/ GetStringsPage \/ Update \/ Download

WebSpec == WebInit /\ [][WebNext]_vars

(***************************************************************************)
(* Requests served at once.  app.run serves every request in a thread of   *)
(* its own and no handler takes a lock, so the file operations of two      *)
(* requests interleave.  A thread's step is one file operation of          *)
(* update() (isfile, the constructor's read, open for writing, the write   *)
(* that close flushes) or the set_string between them.                     *)
(***************************************************************************)
\* The file both updates are about, and the files it may hold at first.
SharedName == "m1"
SharedFiles ==
    { TableFirst(Descs("packed", 2), << 97, 0, 98, 0 >>, << >>, 0),
      DataFirst(Descs("packed", 2), << 97, 0, 98, 0 >>, 0) }

\* u1 and u2 set distinct indices of the file; r reads it.
ConcInit ==
    /\ CodecIdle
    /\ req = NoReq /\ resp = NoResp /\ meta = NoObj /\ nreq = 0
    /\ \E data \in SharedFiles :
         /\ store = [n \in FileNames |->
                        IF n = SharedName THEN [exists |-> TRUE, data |-> data]
                        ELSE Absent]
         /\ prior = store
    /\ \E i \in 0..1, v1 \in Texts, v2 \in Texts :
         threads = [t \in Updaters \cup {Reader} |->
                      IF t = Reader
                      THEN [pc |-> "start", filename |-> SharedName,
                            read |-> << >>, meta_obj |-> NoObj, resp |-> NoResp]
                      ELSE [pc |-> "start", filename |-> SharedName,
                            index |-> IF t = "u1" THEN i ELSE 1 - i,
                            new_value |-> IF t = "u1" THEN v1 ELSE v2,
                            read |-> << >>, meta_obj |-> NoObj, resp |-> NoResp]]

Answer(t, r) == [threads EXCEPT ![t].pc = "done", ![t].resp = r]

\* update(), lines 246-249: os.path.isfile(filepath)
UCheck(t) ==
    /\ threads[t].pc = "start"
    /\ threads' = IF store[threads[t].filename].exists
                  THEN [threads EXCEPT ![t].pc = "load"]
                  ELSE Answer(t, [status |-> 404, success |-> FALSE,
                                  error |-> "File not found"])
    /\ UNCHANGED << codecvars, webvars >>

\* update(), line 252: MetadataFile(filepath) reads the file as it is now.
ULoad(t) ==
    /\ threads[t].pc = "load"
    /\ LET data == store[threads[t].filename].data
           m == parse(data)
       IN  threads' = IF m.ok
                      THEN [threads EXCEPT ![t].pc = "set", ![t].read = data,
                                           ![t].meta_obj = m]
                      ELSE [threads EXCEPT ![t].pc = "done", ![t].read = data,
                                           ![t].meta_obj = m,
                                           ![t].resp = [status |-> 500, success |-> FALSE,
                                                        error |-> m.error]]
    /\ UNCHANGED << codecvars, webvars >>

\* update(), lines 253-255: meta_obj.set_string(index, new_value)
USet(t) ==
    /\ threads[t].pc = "set"
    /\ LET r == set_string(threads[t].meta_obj, threads[t].index, threads[t].new_value)
       IN  threads' = IF r.ok
                      THEN [threads EXCEPT ![t].pc = "open", ![t].meta_obj = r.obj]
                      ELSE Answer(t, [status |-> 500, success |-> FALSE, error |-> r.error])
    /\ UNCHANGED << codecvars, webvars >>

\* update(), line 257: open(filepath, "wb") truncates the file.
UOpen(t) ==
    /\ threads[t].pc = "open"
    /\ store' = [store EXCEPT ![threads[t].filename] = [exists |-> TRUE, data |-> << >>]]
    /\ threads' = [threads EXCEPT ![t].pc = "write"]
    /\ UNCHANGED << codecvars, req, resp, prior, meta, nreq >>

\* update(), lines 258-259: f.write(meta_obj.save().read()); leaving the
\* with block flushes the bytes at offset 0 of the file as it is then (bytes
\* another thread wrote beyond them since the open stay), and the request
\* answers success.
UWrite(t) ==
    /\ threads[t].pc = "write"
    /\ LET saved == save(threads[t].meta_obj)
           bytes == saved.file_data
           old == store[threads[t].filename].data
       IN  /\ store' = [store EXCEPT ![threads[t].filename] =
                          [exists |-> TRUE,
                           data |-> bytes \o SubSeq(old, Len(bytes) + 1, Len(old))]]
           /\ threads' = [threads EXCEPT ![t].pc = "done", ![t].meta_obj = saved,
                                         ![t].resp = [status |-> 200, success |-> TRUE,
                                                      error |-> ""]]
    /\ UNCHANGED << codecvars, req, resp, prior, meta, nreq >>

\* get_strings_page() / download(), lines 230 and 271: a read request's
\* MetadataFile(filepath).
RLoad ==
    /\ threads[Reader].pc = "start"
    /\ LET data == store[threads[Reader].filename].data
           m == parse(data)
       IN  threads' = [threads EXCEPT ![Reader].pc = "done", ![Reader].read = data,
                                      ![Reader].meta_obj = m,
                                      ![Reader].resp = IF m.ok THEN [status |-> 200]
                                                       ELSE [status |-> 500,
                                                             error |-> m.error]]
    /\ UNCHANGED << codecvars, webvars >>

ConcNext ==
    \/ \E t \in Updaters : UCheck(t) \/ ULoad(t) \/ USet(t) \/ UOpen(t) \/ UWrite(t)
    \/ RLoad

ConcSpec == ConcInit /\ [][ConcNext]_vars

(***************************************************************************)
(* Properties of the codec, checked under Spec.                            *)
(***************************************************************************)
Serialized == pc \in {"saved", "reloaded", "resaved"}

\* C1. Round trip: the bytes save returns load again, with the same number
\* of strings, and every string decodes to the text it decoded to just
\* before save.
C1_RoundTrip ==
    pc \in {"reloaded", "resaved"} =>
        /\ obj2.ok
        /\ obj2.string_literal_count = before.string_literal_count
        /\ \A i \in 1..Len(before.str_bytes) :
               get_string(obj2.str_bytes[i]) = get_string(before.str_bytes[i])

\* C2. Idempotence: saving the reloaded output returns the same bytes as
\* the first save did.
C2_Idempotent == pc = "resaved" => out2 = out

\* C3. Length/offset consistency of the returned bytes: descriptor i in the
\* table holds payload i's length and the sum of the lengths before it, and
\* the size field at offset 20 is the end of the last descriptor plus the
\* alignment padding.
C3_TableConsistent ==
    Serialized =>
        LET n == Len(before.str_bytes)
            dto == before.string_literal_offset
            packed == LenSum(before.str_bytes, n)
            pad == (4 - ((before.string_literal_data_offset + packed) % 4)) % 4
            length(i) == unpack_I(out, dto + 8 * (i - 1))
            relative_offset(i) == unpack_I(out, dto + 8 * (i - 1) + 4)
        IN  /\ \A i \in 1..n :
                  /\ length(i) = Len(before.str_bytes[i])
                  /\ relative_offset(i) = LenSum(before.str_bytes, i - 1)
            /\ unpack_I(out, 20)
                  = (IF n = 0 THEN 0 ELSE relative_offset(n) + length(n)) + pad

\* What C4 asks of the bytes `bytes` that save returned for an object whose
\* payloads were str_bytes and whose string-data offset was sdo.
AlignedOutput(bytes, str_bytes, sdo) ==
    LET packed == LenSum(str_bytes, Len(str_bytes))
        total == unpack_I(bytes, 20)
    IN  /\ unpack_I(bytes, 16) = sdo
        /\ (unpack_I(bytes, 16) + total) % 4 = 0
        /\ total - packed \in 0..3
        /\ \A p \in (sdo + packed) .. (sdo + total - 1) :
               p < Len(bytes) /\ bytes[p + 1] = 0

\* C4. Alignment: after every save the header pair (offset, size) ends on a
\* multiple of 4, the padding is 0..3 bytes, and the padding bytes after the
\* packed strings are present in the returned bytes and are zero.
C4_Alignment ==
    /\ Serialized =>
           AlignedOutput(out, before.str_bytes, before.string_literal_data_offset)
    /\ pc = "resaved" =>
           AlignedOutput(out2, obj2.str_bytes, obj2.string_literal_data_offset)

C4_Witness ==
    /\ pc = "resaved"
    /\ unpack_I(out, 20) > LenSum(before.str_bytes, Len(before.str_bytes))
    /\ before.string_literal_data_offset % 4 # 0
    /\ before.string_literal_data_offset > Len(before.file_data)
    /\ edits > 0

\* C5. No object is constructed from a file in which some descriptor's span
\* runs past the end of the file: every payload of a constructed object has
\* its descriptor's length and lies inside the file.
C5_TruncatedPayloadRejected ==
    (pc = "loaded" /\ edits = 0) =>
        \A i \in 1..obj.string_literal_count :
            /\ obj.string_literal_data_offset + obj.string_literals[i].offset
                  + obj.string_literals[i].length <= Len(input)
            /\ Len(obj.str_bytes[i]) = obj.string_literals[i].length

\* C7. set_string with an index in 0..count-1 replaces that payload by the
\* UTF-8 bytes of the text followed by one 0x00 byte (also when the text
\* ends in NUL) and changes nothing else of the object: every other payload,
\* the number of descriptors and payloads and the string-data offset stay;
\* the count is the loaded one after any sequence of calls.
C7_SetStringFrame ==
    /\ pc = "loaded" =>
           /\ obj.string_literal_count = parse(input).string_literal_count
           /\ Len(obj.string_literals) = obj.string_literal_count
           /\ Len(obj.str_bytes) = obj.string_literal_count
    /\ (pc = "loaded" /\ call.made /\ call.index >= 0
           /\ call.index < call.obj.string_literal_count) =>
           /\ call.ok
           /\ obj.str_bytes[call.index + 1] = encode_utf8(call.new_value) \o << 0 >>
           /\ \A j \in 1..Len(call.obj.str_bytes) :
                  j # call.index + 1 => obj.str_bytes[j] = call.obj.str_bytes[j]
           /\ obj.string_literal_data_offset = call.obj.string_literal_data_offset
           /\ [obj EXCEPT !.str_bytes = call.obj.str_bytes] = call.obj

\* A text that ends in NUL is set over a string whose span another string
\* shared in the file.
C7_Witness ==
    /\ pc = "loaded" /\ call.made /\ call.ok /\ call.index = 0
    /\ call.new_value = << 97, 0 >>
    /\ obj.string_literal_count = 2
    /\ obj.string_literals[1] = obj.string_literals[2]
    /\ Len(obj.str_bytes[2]) = 4
    /\ edits = 2

\* C8 as claimed: every decoded string is the lossy decoding of the whole
\* payload with the trailing NUL characters of the decoded text removed, so
\* it never ends with NUL.
C8_DecodeThenStrip ==
    strings.made =>
        \A i \in 1..Len(obj.str_bytes) :
            /\ strings.value[i] = strip_nul_chars(decode_utf8_ignore(obj.str_bytes[i]))
            /\ strings.value[i] = <<>> \/ strings.value[i][Len(strings.value[i])] # 0

\* C8 as amended: the trailing 0x00 bytes are removed before decoding, so
\* every decoded string is the lossy decoding of the whole payload less
\* exactly as many trailing NUL characters as the payload has trailing 0x00
\* bytes; NULs that invalid bytes follow are kept.  get_strings returns one
\* text per payload.
C8_StripThenDecode ==
    strings.made =>
        /\ Len(strings.value) = Len(obj.str_bytes)
        /\ \A i \in 1..Len(obj.str_bytes) :
               decode_utf8_ignore(obj.str_bytes[i])
                  = strings.value[i]
                      \o Zeros(Len(obj.str_bytes[i]) - Len(rstrip_nul(obj.str_bytes[i])))

\* get_strings ran on a payload in which an invalid byte follows a NUL, on
\* one with several trailing NULs and on one set_string wrote.
C8_Witness ==
    /\ strings.made
    /\ \E i \in 1..Len(obj.str_bytes) :
           /\ obj.str_bytes[i] = << 195, 169, 0, 255 >>
           /\ strings.value[i] = << 233, 0 >>
    /\ \E i \in 1..Len(obj.str_bytes) : obj.str_bytes[i] = << 97, 0, 0 >>
    /\ edits > 0

\* C9. save changes only what it owns: a byte of the original buffer outside
\* the descriptor table, the header pair [16, 24) and the new string-data
\* region keeps its position and value, the returned buffer is no shorter,
\* and every payload byte lies at its position sdo + offset + k inside the
\* new region (unless the header pair, written last, lies over it).
C9_FrameAndPlacement ==
    Serialized =>
        LET orig == before.file_data
            n == Len(before.str_bytes)
            dto == before.string_literal_offset
            sdo == before.string_literal_data_offset
            total == unpack_I(out, 20)
            owned(p) == \/ p >= dto /\ p < dto + 8 * n
                        \/ p >= 16 /\ p < 24
                        \/ p >= sdo /\ p < sdo + total
        IN  /\ Len(out) >= Len(orig)
            /\ \A p \in 0..(Len(orig) - 1) : ~owned(p) => out[p + 1] = orig[p + 1]
            /\ \A i \in 1..n : \A k \in 1..Len(before.str_bytes[i]) :
                   LET p == sdo + LenSum(before.str_bytes, i - 1) + k - 1
                   IN  /\ p < sdo + total
                       /\ p < Len(out)
                       /\ ~(p >= 16 /\ p < 24) => out[p + 1] = before.str_bytes[i][k]

\* The part of C9 that holds of every save: the frame and the length.
C9_FrameOnly ==
    Serialized =>
        LET orig == before.file_data
            n == Len(before.str_bytes)
            dto == before.string_literal_offset
            sdo == before.string_literal_data_offset
            total == unpack_I(out, 20)
            owned(p) == \/ p >= dto /\ p < dto + 8 * n
                        \/ p >= 16 /\ p < 24
                        \/ p >= sdo /\ p < sdo + total
        IN  /\ Len(out) >= Len(orig)
            /\ \A p \in 0..(Len(orig) - 1) : ~owned(p) => out[p + 1] = orig[p + 1]

(***************************************************************************)
(* Properties of the request handlers, checked under WebSpec.              *)
(***************************************************************************)
\* The object update() constructed from the file the request found.
Found == parse(prior[req.filename].data)

\* C6. set_string with an index >= the number of strings raises the index
\* error and leaves the object as constructed; update() answers with the
\* failure and the folder, the file included, is as the request found it.
C6_IndexErrorLeavesFile ==
    (req.kind = "update" /\ prior[req.filename].exists /\ Found.ok
        /\ req.index >= Found.string_literal_count) =>
        /\ resp.status = 500
        /\ ~resp.success
        /\ resp.error = "list assignment index out of range"
        /\ meta = Found
        /\ store = prior

\* An update with the first index past the end of a file of two strings that
\* an earlier update had changed.
C6_Witness ==
    /\ req.kind = "update" /\ prior[req.filename].exists /\ Found.ok
    /\ Found.string_literal_count = 2
    /\ req.index = 2
    /\ resp.status = 500
    /\ nreq = 3
    /\ prior[req.filename].data \notin UploadFiles

\* C10. An upload that does not parse is answered with the error and
\* discarded: the folder holds no file with the rejected bytes under that
\* name, and a file accepted earlier under that name is still there with
\* its bytes.
C10_RejectedUploadDiscarded ==
    (req.kind = "upload" /\ ~parse(req.content).ok) =>
        /\ resp.page = "upload" /\ resp.error # ""
        /\ ~(store[req.filename].exists /\ store[req.filename].data = req.content)
        /\ (prior[req.filename].exists /\ parse(prior[req.filename].data).ok)
               => store[req.filename] = prior[req.filename]

\* The decoded strings of the indices lo .. hi - 1 of an object, in order.
StringsOf(m, lo, hi) == [k \in 1..(hi - lo) |-> get_string(m.str_bytes[lo + k])]

\* C11. Paginated view: for every page number and size the answer holds
\* exactly the decoded strings of the indices
\* [(page-1)*size, min(page*size, count)) in order (none when that range holds
\* no index), start_index is the index of the first string returned, and
\* has_more says whether a string with an index >= page*size exists.
C11_PageIsTheSlice ==
    (req.kind = "page" /\ prior[req.filename].exists /\ Found.ok) =>
        LET n == Found.string_literal_count
            lo == Max((req.page - 1) * req.limit, 0)
            hi == Max(Min(req.page * req.limit, n), lo)
        IN  /\ resp.status = 200
            /\ resp.strings = StringsOf(Found, lo, hi)
            /\ resp.strings # <<>> => resp.start_index = lo
            /\ resp.has_more = (\E i \in 0..(n - 1) : i >= req.page * req.limit)

\* The part of C11 that holds: pages from 1 and sizes from 0.
C11_PositivePages ==
    (req.kind = "page" /\ prior[req.filename].exists /\ Found.ok
        /\ req.page >= 1 /\ req.limit >= 0) =>
        LET n == Found.string_literal_count
            lo == Min((req.page - 1) * req.limit, n)
            hi == Min(req.page * req.limit, n)
        IN  /\ resp.status = 200
            /\ resp.strings = StringsOf(Found, lo, hi)
            /\ resp.start_index = (req.page - 1) * req.limit
            /\ resp.has_more = (\E i \in 0..(n - 1) : i >= req.page * req.limit)

\* C13. set_string changes a payload only for an index in 0..count-1: an
\* update with any other integer, a negative one included, is rejected, no
\* payload of the object changes and the stored file keeps every string.
C13_OnlyZeroBasedIndices ==
    (req.kind = "update" /\ prior[req.filename].exists /\ Found.ok
        /\ (req.index < 0 \/ req.index >= Found.string_literal_count)) =>
        /\ ~resp.success
        /\ meta.str_bytes = Found.str_bytes
        /\ store[req.filename] = prior[req.filename]
        /\ get_strings(parse(store[req.filename].data)) = get_strings(Found)

(***************************************************************************)
(* Properties of requests served at once, checked under ConcSpec.          *)
(***************************************************************************)
\* Both updates have answered success.
BothSucceeded == \A t \in Updaters : threads[t].pc = "done" /\ threads[t].resp.success

\* The stored file loads and holds the strings both updates set.
HoldsBoth ==
    LET m == parse(store[SharedName].data)
    IN  /\ m.ok
        /\ \A t \in Updaters :
               /\ threads[t].index < m.string_literal_count
               /\ m.str_bytes[threads[t].index + 1]
                     = encode_utf8(threads[t].new_value) \o << 0 >>

\* No request constructed its object from a file another request had opened
\* for writing and not yet written: the bytes each one read parse.
NoPartialRead ==
    \A t \in Updaters \cup {Reader} :
        threads[t].meta_obj # NoObj => parse(threads[t].read).ok

\* C12. Access to one file is serialized: once two updates of distinct
\* indices have both answered success the stored file loads and holds both
\* new strings, and no read or update ever loads a partially written file.
C12_SerializedAccess ==
    /\ BothSucceeded => HoldsBoth
    /\ NoPartialRead

\* The first half of C12 alone: no lost update.
C12_NoLostUpdate == BothSucceeded => HoldsBoth

====
